---- MODULE Spec2Model ----
(***************************************************************************)
(* The maker-based scalping engine of src/public/js/scalping.js            *)
(* (class ScalpingBot and its button handlers) as a state machine.         *)
(*                                                                         *)
(* Every async method is cut at its awaits on the exchange adapter: one    *)
(* action resumes one suspended call with the adapter's answer and runs    *)
(* the synchronous code up to the next await.  Button handlers are the     *)
(* commands.  Prices are integers in half ticks, so config.tickSize is 2   *)
(* units and roundToTick is a real rounding.  Wall-clock comparisons       *)
(* (buyTTL, waitAfterBuyFill, the 30 s / 10 s sell timeouts) are           *)
(* nondeterministic inputs of the step that makes them.                    *)
(***************************************************************************)
EXTENDS Integers, Sequences, FiniteSets, TLC

VARIABLES
    isRunning, isPaused, config,
    activeBuyOrders, activeSellTPOrders,
    loopInterval, lastBuyFillTime,
    isWaitingForMarketSell, pendingMarketSell, pendingNewTP,
    stats,
    loops,        \* the invocations of runMainLoop in flight (or their timer)
    stopProc,     \* the invocation of stop() in flight
    pauseProc,    \* the invocation of pause() in flight
    btn,          \* which buttons are shown / disabled
    exchange,     \* the run's environment: orders the exchange still accepts,
                  \* clicks still to come, the bids it shows, the form's configs
    tops          \* the best bid the last tick read, whether the tick now
                  \* reconciling BUYs read the same one as the tick before,
                  \* and what cancelOrder answered if this step resumed on it

vars == <<isRunning, isPaused, config, activeBuyOrders, activeSellTPOrders,
          loopInterval, lastBuyFillTime, isWaitingForMarketSell,
          pendingMarketSell, pendingNewTP, stats, loops, stopProc, pauseProc,
          btn, exchange, tops>>

----------------------------------------------------------------------------
(* Bounds of the model *)

\* orders the exchange accepts in a run (after that it rejects placements)
MaxBuyPlaced == 3
MaxSellPlaced == 4
\* button clicks in a run
MaxClicks == 3
\* order ids the exchange hands out (the smallest id nobody holds)
IdPool == MaxBuyPlaced + MaxSellPlaced

\* best-bid values (in ticks) the orderbook can show
BidTicks == {5, 8}
\* the best bid (in ticks) of a run whose orderbook does not move
SteadyBidTicks == 5
\* the invocations of runMainLoop that can be in flight together
Loops == {1, 2}

----------------------------------------------------------------------------
(* Configuration read from the form *)

TickSize == 2
MaxBuyOrders == 2
MaxSellTPOrders == 1
LayerStepTicks == 3
TpTicks == 1
OrderQty == 2

BaseConfig ==
    [apiKey |-> "key", tickSize |-> TickSize, maxBuyOrders |-> MaxBuyOrders,
     offsetTicks |-> 0, layerStepTicks |-> LayerStepTicks,
     repriceTicks |-> 4, tpTicks |-> TpTicks,
     maxSellTPOrders |-> MaxSellTPOrders, orderQty |-> OrderQty,
     waitAfterBuyFill |-> 0, sellAllOnStop |-> TRUE]

Configs ==
    { BaseConfig,
      [BaseConfig EXCEPT !.repriceTicks = 1, !.orderQty = 1,
                         !.sellAllOnStop = FALSE] }

\* what the form also lets through to the handler: no credentials, no
\* quantity, no BUY layer
OddConfigs ==
    { [BaseConfig EXCEPT !.apiKey = ""], [BaseConfig EXCEPT !.orderQty = 0],
      [BaseConfig EXCEPT !.maxBuyOrders = 0] }

\* a deeper ladder: three layers one tick apart
DeepConfig ==
    [BaseConfig EXCEPT !.maxBuyOrders = MaxBuyOrders + 1, !.layerStepTicks = 1,
                       !.orderQty = 1]

\* one unit per order, one TP
AuditConfig == [BaseConfig EXCEPT !.orderQty = 1]

\* room for two TPs
WideConfig ==
    [BaseConfig EXCEPT !.maxSellTPOrders = MaxSellTPOrders + 1, !.orderQty = 1]

\* what a run may use up and see: either it trades up to the order bounds
\* after one click (one SELL order less when each order is two units), or it
\* is clicked up to the click bound and trades less
\* (one unit per order while the best bid moves, two units at a steady best
\* bid), or it trades the deeper ladder, or with room for two TPs, at a
\* steady best bid, or its user fills the
\* form carelessly and presses Start again while a tick of the stopped run is
\* still suspended, or does so with two BUY layers and every TP placement
\* refused, or it is a run whose orders are booked in the ledger (tops.net)
Budgets ==
    { [buys |-> MaxBuyPlaced, sells |-> MaxSellPlaced, clicks |-> 1,
       bids |-> BidTicks, form |-> Configs \ {BaseConfig}, overlap |-> FALSE,
       ledger |-> FALSE, rolling |-> 0],
      [buys |-> MaxBuyPlaced, sells |-> MaxSellPlaced - 1, clicks |-> 1,
       bids |-> BidTicks, form |-> {BaseConfig}, overlap |-> FALSE,
       ledger |-> FALSE, rolling |-> 0],
      [buys |-> MaxBuyPlaced - 1, sells |-> MaxSellPlaced - 2,
       clicks |-> MaxClicks, bids |-> BidTicks,
       form |-> Configs \ {BaseConfig}, overlap |-> FALSE,
       ledger |-> FALSE, rolling |-> 0],
      [buys |-> MaxBuyPlaced - 1, sells |-> MaxSellPlaced - 2,
       clicks |-> MaxClicks, bids |-> {SteadyBidTicks},
       form |-> {BaseConfig}, overlap |-> FALSE,
       ledger |-> FALSE, rolling |-> 0],
      [buys |-> MaxBuyPlaced + 1, sells |-> MaxSellPlaced - 1, clicks |-> 1,
       bids |-> {SteadyBidTicks}, form |-> {DeepConfig}, overlap |-> FALSE,
       ledger |-> FALSE, rolling |-> 0],
      [buys |-> MaxBuyPlaced, sells |-> MaxSellPlaced - 1, clicks |-> 1,
       bids |-> {SteadyBidTicks}, form |-> {WideConfig}, overlap |-> FALSE,
       ledger |-> FALSE, rolling |-> 0],
      [buys |-> MaxBuyPlaced - 2, sells |-> MaxSellPlaced - 3,
       clicks |-> MaxClicks, bids |-> {SteadyBidTicks},
       form |-> {BaseConfig} \cup OddConfigs, overlap |-> TRUE,
       ledger |-> FALSE, rolling |-> 0],
      [buys |-> MaxBuyPlaced - 1, sells |-> MaxSellPlaced - 4,
       clicks |-> MaxClicks, bids |-> {SteadyBidTicks},
       form |-> Configs \ {BaseConfig}, overlap |-> TRUE,
       ledger |-> FALSE, rolling |-> 0],
      [buys |-> MaxBuyPlaced - 1, sells |-> MaxSellPlaced - 1,
       clicks |-> MaxClicks - 1, bids |-> {SteadyBidTicks},
       form |-> {AuditConfig}, overlap |-> FALSE, ledger |-> TRUE, rolling |-> 0] }

\* runs in which the exchange can take one more SELL order whenever it has
\* cancelled the pending sell: `rolling` then caps the SELL orders that rest
\* together, so that a pending sell can be replaced over and over. One run
\* sees the best bid move, one has a third BUY to cancel while it waits, one
\* has room for two TPs
LiveBudgets ==
    { [buys |-> MaxBuyPlaced - 1, sells |-> MaxSellPlaced - 2, clicks |-> 1,
       bids |-> BidTicks, form |-> {AuditConfig}, overlap |-> FALSE,
       ledger |-> FALSE, rolling |-> MaxSellPlaced - 2],
      [buys |-> MaxBuyPlaced, sells |-> MaxSellPlaced - 2, clicks |-> 1,
       bids |-> {SteadyBidTicks}, form |-> {AuditConfig}, overlap |-> FALSE,
       ledger |-> FALSE, rolling |-> MaxSellPlaced - 2],
      [buys |-> MaxBuyPlaced, sells |-> MaxSellPlaced, clicks |-> 1,
       bids |-> {SteadyBidTicks}, form |-> {WideConfig}, overlap |-> FALSE,
       ledger |-> FALSE, rolling |-> MaxSellPlaced] }

Null == [null |-> TRUE]

Bids == { b * TickSize : b \in exchange.bids }

\* orderbook answers: null (failed fetch) or {bestBid, bestAsk}
Orderbooks == {Null} \cup { [bestBid |-> b, bestAsk |-> b + TickSize] : b \in Bids }

Abs(x) == IF x < 0 THEN -x ELSE x

----------------------------------------------------------------------------
(* Tick-price arithmetic *)

\* Math.round(price / tickSize) * tickSize; Math.round rounds halves up
roundToTick(c, price) ==
    ((2 * price + c.tickSize) \div (2 * c.tickSize)) * c.tickSize

\* a TP one tick short of tpTicks
tpPriceShort(c, buyPrice) ==
    roundToTick(c, buyPrice + (c.tpTicks - 1) * c.tickSize)

tpPriceOf(c, buyPrice) == roundToTick(c, buyPrice + c.tpTicks * c.tickSize)

\* Math.abs(a - b) < tickSize * 0.5
samePrice(c, a, b) == 2 * Abs(a - b) < c.tickSize

----------------------------------------------------------------------------
(* Statistics *)

ZeroStats ==
    [totalBuyOrdersCreated |-> 0, totalBuyOrdersFilled |-> 0,
     totalBuyOrdersCanceled |-> 0, totalSellOrdersCreated |-> 0,
     totalSellOrdersFilled |-> 0, totalSellOrdersCanceled |-> 0,
     realProfit |-> 0, pendingPositions |-> <<>>]

\* the locals of one runMainLoop invocation, at its default
\* (filled: the ids updateBuyOrders has seen Filled so far in this call)
L0 ==
    [pc |-> "none", bestBid |-> 0, i |-> 0, ordersToRemove |-> {}, old |-> {},
     order |-> Null, cont |-> "", buyPrice |-> 0, qty |-> 0,
     highestTPIndex |-> 0, layer |-> 0, price |-> 0,
     existingLayers |-> {}, existingPrices |-> {}, iter |-> Null,
     highestOrder |-> Null, filled |-> {}]

\* (open: the ids in the book when the call began; done: the ids its loop in
\* flight has called the exchange for so far)
P0 ==
    [pc |-> "idle", iter |-> Null, order |-> Null, bestAsk |-> 0, open |-> {},
     done |-> {}]

\* The whole state as one record, so that synchronous code composes
State ==
    [isRunning |-> isRunning, isPaused |-> isPaused, config |-> config,
     activeBuyOrders |-> activeBuyOrders,
     activeSellTPOrders |-> activeSellTPOrders,
     loopInterval |-> loopInterval, lastBuyFillTime |-> lastBuyFillTime,
     isWaitingForMarketSell |-> isWaitingForMarketSell,
     pendingMarketSell |-> pendingMarketSell, pendingNewTP |-> pendingNewTP,
     stats |-> stats, loops |-> loops, stopProc |-> stopProc,
     pauseProc |-> pauseProc, btn |-> btn]

Commit(s) ==
    /\ isRunning' = s.isRunning
    /\ isPaused' = s.isPaused
    /\ config' = s.config
    /\ activeBuyOrders' = s.activeBuyOrders
    /\ activeSellTPOrders' = s.activeSellTPOrders
    /\ loopInterval' = s.loopInterval
    /\ lastBuyFillTime' = s.lastBuyFillTime
    /\ isWaitingForMarketSell' = s.isWaitingForMarketSell
    /\ pendingMarketSell' = s.pendingMarketSell
    /\ pendingNewTP' = s.pendingNewTP
    /\ stats' = s.stats
    /\ loops' = s.loops
    /\ stopProc' = s.stopProc
    /\ pauseProc' = s.pauseProc
    /\ btn' = s.btn

----------------------------------------------------------------------------
(* Arrays *)

\* splice(idx, 1) for every 0-based idx of idxs, from the last to the first
RECURSIVE RemoveAt(_, _)
RemoveAt(seq, idxs) ==
    IF seq = <<>> THEN <<>>
    ELSE LET n == Len(seq)
             front == RemoveAt(SubSeq(seq, 1, n - 1), idxs)
         IN IF (n - 1) \in idxs THEN front ELSE Append(front, seq[n])

\* findIndex(p => p.orderId === id) followed by splice(index, 1)
RECURSIVE RemoveFirstId(_, _)
RemoveFirstId(seq, id) ==
    IF seq = <<>> THEN <<>>
    ELSE IF Head(seq).orderId = id THEN Tail(seq)
    ELSE <<Head(seq)>> \o RemoveFirstId(Tail(seq), id)

IdsOf(seq) == { seq[k].orderId : k \in 1..Len(seq) }

HeldId(r) == IF r = Null THEN {} ELSE {r.orderId}

\* ids somebody still holds: the exchange never hands one of them out again
UsedIds(s) ==
    IdsOf(s.activeBuyOrders) \cup IdsOf(s.activeSellTPOrders)
      \cup IdsOf(s.stats.pendingPositions) \cup HeldId(s.pendingMarketSell)
      \cup UNION { HeldId(s.loops[f].order) : f \in Loops }
      \cup UNION { HeldId(s.loops[f].highestOrder) : f \in Loops }
      \cup UNION { s.loops[f].filled : f \in Loops }
      \cup HeldId(s.stopProc.order) \cup s.stopProc.done

FreeIds(s) == (1..IdPool) \ (UsedIds(s) \cup tops.live \cup tops.paid)

NewId(s) == CHOOSE n \in FreeIds(s) : \A m \in FreeIds(s) : n <= m

----------------------------------------------------------------------------
(* runMainLoop: the tail of a tick, then the steps from the last to the first *)

Await(s, f, l) == [s EXCEPT !.loops[f] = l]

Local(s, f) == s.loops[f]

\* a tick that schedules the next one only while the engine is not paused
endOfTickUnpaused(s, f) ==
    IF s.isRunning /\ ~s.isPaused
    THEN [s EXCEPT !.loopInterval = f, !.loops[f] = [L0 EXCEPT !.pc = "timer"]]
    ELSE [s EXCEPT !.loops[f] = L0]

\* "Only schedule next loop if still running": loopInterval holds the timer
endOfTick(s, f) ==
    IF s.isRunning
    THEN [s EXCEPT !.loopInterval = f, !.loops[f] = [L0 EXCEPT !.pc = "timer"]]
    ELSE [s EXCEPT !.loops[f] = L0]

pushTP(s, id, tpPrice, qty, buyPrice) ==
    [s EXCEPT
       !.stats.totalSellOrdersCreated = @ + 1,
       !.activeSellTPOrders =
           Append(@, [orderId |-> id, price |-> tpPrice, qty |-> qty,
                      buyPrice |-> buyPrice]),
       !.stats.pendingPositions =
           Append(@, [orderId |-> id, buyPrice |-> buyPrice, qty |-> qty,
                      sellPrice |-> tpPrice])]

\* a TP built from this.pendingNewTP after the await; reading a null
\* pendingNewTP throws after the counter was incremented
pushPendingTP(s, id, tpPrice) ==
    pushTP(s, id, tpPrice, s.pendingNewTP.qty, s.pendingNewTP.buyPrice)

sellCreatedOnly(s) == [s EXCEPT !.stats.totalSellOrdersCreated = @ + 1]

(* updateSellTPOrders *)

\* after the status loop: splice the filled ones, then the pending TP
updateSellTPOrders_tail(s, f) ==
    LET l == Local(s, f)
        s1 == [s EXCEPT !.activeSellTPOrders = RemoveAt(@, l.ordersToRemove)]
    IN IF /\ s1.isWaitingForMarketSell
          /\ s1.pendingNewTP # Null
          /\ l.ordersToRemove # {}
          /\ Len(s1.activeSellTPOrders) < s1.config.maxSellTPOrders
       THEN Await(s1, f, [L0 EXCEPT !.pc = "us_place",
                             !.price = tpPriceOf(s1.config, s1.pendingNewTP.buyPrice)])
       ELSE endOfTick(s1, f)

updateSellTPOrders_loop(s, f) ==
    LET l == Local(s, f)
    IN IF l.i < Len(s.activeSellTPOrders)
       THEN Await(s, f, [l EXCEPT !.pc = "us_status",
                            !.order = s.activeSellTPOrders[l.i + 1]])
       ELSE updateSellTPOrders_tail(s, f)

updateSellTPOrders(s, f) ==
    updateSellTPOrders_loop(Await(s, f, L0), f)

\* the profit of a TP fill with buy and sell swapped
profitMirrored(o) == (o.buyPrice - o.price) * o.qty

\* const profit = (order.price - order.buyPrice) * order.qty
profitOf(o) == (o.price - o.buyPrice) * o.qty

\* the status of TP order i came back
updateSellTPOrders_status(s, f, filled) ==
    LET l == Local(s, f)
        o == l.order
        s1 == IF filled
              THEN [s EXCEPT
                      !.stats.totalSellOrdersFilled = @ + 1,
                      !.stats.realProfit = @ + profitOf(o),
                      !.stats.pendingPositions = RemoveFirstId(@, o.orderId),
                      !.loops[f].ordersToRemove = @ \cup {l.i}]
              ELSE s
    IN updateSellTPOrders_loop(
           [s1 EXCEPT !.loops[f].i = @ + 1, !.loops[f].order = Null], f)

\* the placement of the pending TP came back
updateSellTPOrders_placed(s, f, ok) ==
    LET l == Local(s, f)
    IN IF ~ok THEN endOfTick(s, f)
       ELSE IF s.pendingNewTP = Null THEN endOfTick(sellCreatedOnly(s), f)
       ELSE endOfTick([pushPendingTP(s, NewId(s), l.price)
                          EXCEPT !.pendingNewTP = Null], f)

(* createBuyOrders *)

\* findIndex(order => |order.price - buyPrice| < tickSize * 0.5), 1-based, 0 if none
conflictIndexOf(s, buyPrice) ==
    LET hits == { k \in 1..Len(s.activeBuyOrders) :
                    samePrice(s.config, s.activeBuyOrders[k].price, buyPrice) }
    IN IF hits = {} THEN 0 ELSE CHOOSE k \in hits : \A j \in hits : k <= j

layerPrice(c, bestBid, layer) ==
    roundToTick(c, bestBid - (c.offsetTicks + layer * c.layerStepTicks) * c.tickSize)

\* "Switch layers": the relabelling of the order in conflict
switchLayers(conflictOrder, layer, buyPrice) ==
    IF layer < conflictOrder.layer THEN [conflictOrder EXCEPT !.layer = layer + 1]
    ELSE IF buyPrice > conflictOrder.price THEN [conflictOrder EXCEPT !.layer = layer]
    ELSE conflictOrder

\* the for loop over the layers, from `layer` to the next placeLimitOrder
RECURSIVE createBuyOrders_loop(_, _, _)
createBuyOrders_loop(s, f, layer) ==
    LET l == Local(s, f)
        c == s.config
    IN IF layer >= c.maxBuyOrders THEN updateSellTPOrders(s, f)
       ELSE IF layer \in l.existingLayers THEN createBuyOrders_loop(s, f, layer + 1)
       ELSE
         LET p0 == layerPrice(c, l.bestBid, layer)
             k == conflictIndexOf(s, p0)
         IN IF k = 0
            THEN Await(s, f, [l EXCEPT !.pc = "cb_place", !.layer = layer,
                                 !.buyPrice = p0,
                                 !.existingPrices = @ \cup {p0}])
            ELSE
              LET p1 == roundToTick(c, p0 + c.layerStepTicks * c.tickSize)
              IN IF \E e \in l.existingPrices : samePrice(c, e, p1)
                 THEN createBuyOrders_loop(s, f, layer + 1)
                 ELSE Await(
                        [s EXCEPT !.activeBuyOrders[k] = switchLayers(@, layer, p1)],
                        f, [l EXCEPT !.pc = "cb_place", !.layer = layer,
                               !.buyPrice = p1,
                               !.existingPrices = @ \cup {p1}])

\* cool: Date.now() - lastBuyFillTime < waitAfterBuyFill
createBuyOrders(s, f, cool) ==
    LET l == Local(s, f)
        c == s.config
        n == Len(s.activeBuyOrders)
    IN IF c.maxBuyOrders - n <= 0 THEN updateSellTPOrders(s, f)
       ELSE IF c.waitAfterBuyFill > 0 /\ s.lastBuyFillTime > 0 /\ cool
       THEN updateSellTPOrders(s, f)
       ELSE createBuyOrders_loop(
              Await(s, f, [L0 EXCEPT
                  !.bestBid = l.bestBid,
                  !.existingLayers = { s.activeBuyOrders[k].layer : k \in 1..n },
                  !.existingPrices = { s.activeBuyOrders[k].price : k \in 1..n }]),
              f, 0)

\* the placement of a BUY came back
createBuyOrders_placed(s, f, ok) ==
    LET l == Local(s, f)
        s1 == IF ok
              THEN [s EXCEPT
                      !.stats.totalBuyOrdersCreated = @ + 1,
                      !.activeBuyOrders =
                          Append(@, [orderId |-> NewId(s), price |-> l.buyPrice,
                                     qty |-> s.config.orderQty, filledQty |-> 0,
                                     layer |-> l.layer])]
              ELSE s
    IN IF Len(s1.activeBuyOrders) >= s1.config.maxBuyOrders
       THEN updateSellTPOrders(s1, f)
       ELSE createBuyOrders_loop(s1, f, l.layer + 1)

----------------------------------------------------------------------------
(* for (const order of this.activeBuyOrders): an array iterator.  It reads *)
(* the array it was started on: live, it is an index into the current      *)
(* array; once this.activeBuyOrders is assigned a new array it goes on     *)
(* over the old one, of which only the number of orders left matters.      *)

LiveIter(idx) == [live |-> TRUE, idx |-> idx]

detach(iter, n) ==
    IF iter # Null /\ iter.live
    THEN [live |-> FALSE, idx |-> IF n > iter.idx THEN n - iter.idx ELSE 0]
    ELSE iter

iterHasNext(iter, n) == IF iter.live THEN iter.idx < n ELSE iter.idx > 0

iterNext(iter) ==
    IF iter.live THEN [iter EXCEPT !.idx = @ + 1] ELSE [iter EXCEPT !.idx = @ - 1]

\* this.activeBuyOrders = []
clearBuyOrders(s) ==
    LET n == Len(s.activeBuyOrders)
    IN [s EXCEPT
          !.activeBuyOrders = <<>>,
          !.loops = [f \in Loops |-> [@[f] EXCEPT !.iter = detach(@, n)]],
          !.stopProc.iter = IF s.stopProc.pc = "s_buy_cancel" THEN detach(@, n) ELSE @,
          !.pauseProc.iter = detach(@, n)]

----------------------------------------------------------------------------
(* createSellTPOrder(buyPrice, qty), called from updateBuyOrders; cont     *)
(* names the call site it returns to.                                      *)

\* index (0-based) of the first order with the highest price
highestTPIndexOf(tps) ==
    CHOOSE k \in 0..(Len(tps) - 1) :
        /\ \A j \in 0..(Len(tps) - 1) : tps[j + 1].price <= tps[k + 1].price
        /\ \A j \in 0..(k - 1) : tps[j + 1].price < tps[k + 1].price

createSellTPOrder(s, f, buyPrice, qty, cont) ==
    LET l == Local(s, f)
        tps == s.activeSellTPOrders
    IN IF Len(tps) >= s.config.maxSellTPOrders
       THEN LET h == highestTPIndexOf(tps)
            IN Await(s, f, [l EXCEPT !.pc = "tp_ev_cancel", !.cont = cont,
                               !.buyPrice = buyPrice, !.qty = qty,
                               !.highestTPIndex = h, !.highestOrder = tps[h + 1]])
       ELSE Await(s, f, [l EXCEPT !.pc = "tp_place", !.cont = cont,
                            !.buyPrice = buyPrice, !.qty = qty,
                            !.price = tpPriceOf(s.config, buyPrice)])

\* the cancel of the highest TP came back (its result is not looked at)
createSellTPOrder_evicted(s, f) ==
    LET l == Local(s, f)
    IN Await(
         [s EXCEPT
            !.stats.totalSellOrdersCanceled = @ + 1,
            !.activeSellTPOrders = RemoveAt(@, {l.highestTPIndex}),
            !.stats.pendingPositions = RemoveFirstId(@, l.highestOrder.orderId),
            !.isWaitingForMarketSell = TRUE,
            !.pendingNewTP = [buyPrice |-> l.buyPrice, qty |-> l.qty]],
         f, [l EXCEPT !.pc = "tp_ev_market"])

RECURSIVE updateBuyOrders_loop(_, _, _)

\* back in updateBuyOrders after createSellTPOrder returned
createSellTPOrder_return(s, f, cool) ==
    LET l == Local(s, f)
        back == [l EXCEPT !.cont = "", !.buyPrice = 0, !.qty = 0, !.price = 0,
                          !.highestTPIndex = 0, !.highestOrder = Null]
    IN IF l.cont = "rp"
       THEN Await(s, f, [back EXCEPT !.pc = "ub_rp_cancel"])
       ELSE updateBuyOrders_loop(
              Await(s, f, [back EXCEPT !.ordersToRemove = @ \cup {l.i},
                                       !.i = @ + 1, !.order = Null]),
              f, cool)

\* the market sell of the evicted position came back
createSellTPOrder_marketPlaced(s, f, ok, cool) ==
    LET l == Local(s, f)
        h == l.highestOrder
        s1 == IF ok
              THEN [s EXCEPT !.pendingMarketSell =
                       [orderId |-> NewId(s), qty |-> h.qty, buyPrice |-> h.buyPrice,
                        originalTPPrice |-> h.price, age |-> 0,
                        isLimitFallback |-> FALSE, limitPrice |-> 0]]
              ELSE [s EXCEPT !.isWaitingForMarketSell = FALSE,
                             !.pendingNewTP = Null]
    IN createSellTPOrder_return(s1, f, cool)

\* the placement of the TP came back
createSellTPOrder_placed(s, f, ok, cool) ==
    LET l == Local(s, f)
    IN createSellTPOrder_return(
         IF ok THEN pushTP(s, NewId(s), l.price, l.qty, l.buyPrice) ELSE s,
         f, cool)

----------------------------------------------------------------------------
(* updateBuyOrders(bestBid) *)

\* order.filledQty: the order object is shared with the array it sits in
filledQtyOf(s, o) ==
    LET hits == { k \in 1..Len(s.activeBuyOrders) :
                    s.activeBuyOrders[k].orderId = o.orderId }
    IN IF hits = {} THEN o.filledQty
       ELSE s.activeBuyOrders[CHOOSE k \in hits : TRUE].filledQty

setFilledQty(s, f, q) ==
    [s EXCEPT
       !.loops[f].order.filledQty = q,
       !.activeBuyOrders =
           [k \in 1..Len(@) |->
               IF @[k].orderId = s.loops[f].order.orderId
               THEN [@[k] EXCEPT !.filledQty = q] ELSE @[k]]]

\* Math.abs(order.price - bestBid) / tickSize >= repriceTicks
needsReprice(c, price, bestBid) ==
    Abs(price - bestBid) >= c.repriceTicks * c.tickSize

recordBuyFill(s) ==
    [s EXCEPT !.stats.totalBuyOrdersFilled = @ + 1, !.lastBuyFillTime = 1]

\* the head of the for loop, then the splices and createBuyOrders
updateBuyOrders_loop(s, f, cool) ==
    LET l == Local(s, f)
    IN IF l.i < Len(s.activeBuyOrders)
       THEN Await(s, f, [l EXCEPT !.pc = "ub_status",
                            !.order = s.activeBuyOrders[l.i + 1]])
       ELSE createBuyOrders(
              [s EXCEPT !.activeBuyOrders = RemoveAt(@, l.ordersToRemove)], f, cool)

\* nOld: how many of the oldest orders have age >= buyTTL at `now`
updateBuyOrders(s, f, bestBid, nOld, cool) ==
    updateBuyOrders_loop(
      Await(s, f, [L0 EXCEPT !.bestBid = bestBid,
                      !.old = { s.activeBuyOrders[k].orderId : k \in 1..nOld }]),
      f, cool)

\* the status of BUY order i came back: st is "Filled", "PartiallyFilled"
\* (with cumExecQty q) or anything else
updateBuyOrders_status(s, f, st, q, cool) ==
    LET l == Local(s, f)
        o == l.order
    IN IF st = "Filled"
       THEN createSellTPOrder(
              [recordBuyFill(s) EXCEPT !.loops[f].filled = @ \cup {o.orderId}],
              f, o.price, o.qty, "fill")
       ELSE
         LET s1 == IF st = "PartiallyFilled" THEN setFilledQty(s, f, q) ELSE s
             fq == filledQtyOf(s1, s1.loops[f].order)
         IN IF o.orderId \in l.old
            THEN Await(s1, f, [s1.loops[f] EXCEPT !.pc = "ub_ttl_cancel"])
            ELSE IF needsReprice(s1.config, o.price, l.bestBid)
            THEN IF fq > 0
                 THEN createSellTPOrder(recordBuyFill(s1), f, o.price, fq, "rp")
                 ELSE Await(s1, f, [s1.loops[f] EXCEPT !.pc = "ub_rp_cancel"])
            ELSE updateBuyOrders_loop(
                   [s1 EXCEPT !.loops[f].i = @ + 1, !.loops[f].order = Null], f, cool)

\* an expiry that forgets the partial fill of the order it cancels
updateBuyOrders_expiredDropped(s, f, cool) ==
    LET l == Local(s, f)
    IN updateBuyOrders_loop(
         [s EXCEPT !.stats.totalBuyOrdersCanceled = @ + 1,
                   !.loops[f].ordersToRemove = @ \cup {l.i},
                   !.loops[f].i = @ + 1, !.loops[f].order = Null], f, cool)

\* the cancel of an expired order came back
updateBuyOrders_expired(s, f, cool) ==
    LET l == Local(s, f)
        s1 == [s EXCEPT !.stats.totalBuyOrdersCanceled = @ + 1]
        fq == filledQtyOf(s1, l.order)
    IN IF fq > 0
       THEN createSellTPOrder(recordBuyFill(s1), f, l.order.price, fq, "ttl")
       ELSE updateBuyOrders_loop(
              [s1 EXCEPT !.loops[f].ordersToRemove = @ \cup {l.i},
                         !.loops[f].i = @ + 1, !.loops[f].order = Null], f, cool)

\* the cancel of an order to reprice came back
updateBuyOrders_repriced(s, f, cool) ==
    LET l == Local(s, f)
    IN updateBuyOrders_loop(
         [s EXCEPT !.stats.totalBuyOrdersCanceled = @ + 1,
                   !.loops[f].ordersToRemove = @ \cup {l.i},
                   !.loops[f].i = @ + 1, !.loops[f].order = Null], f, cool)

----------------------------------------------------------------------------
(* runMainLoop, from its entry to the orderbook *)

fetchOrderbook(s, f) == Await(s, f, [L0 EXCEPT !.pc = "ob"])

\* "Cancel any existing buy orders while waiting": one cancel came back
\* (or the loop starts, counted = FALSE)
cancelWhileWaiting_next(s, f, counted) ==
    LET l == Local(s, f)
        s1 == IF counted
              THEN [s EXCEPT !.stats.totalBuyOrdersCanceled = @ + 1] ELSE s
    IN IF iterHasNext(l.iter, Len(s1.activeBuyOrders))
       THEN Await(s1, f, [l EXCEPT !.pc = "w_cancel", !.iter = iterNext(@)])
       ELSE updateSellTPOrders(
              clearBuyOrders([s1 EXCEPT !.loops[f].iter = Null]), f)

\* the orderbook of the tick came back
runMainLoop_orderbook(s, f, ob, nOld, cool) ==
    IF ob = Null THEN endOfTick(s, f)
    ELSE IF ~s.isPaused /\ ~s.isWaitingForMarketSell
    THEN updateBuyOrders(s, f, ob.bestBid, nOld, cool)
    ELSE IF s.isWaitingForMarketSell
    THEN IF Len(s.activeBuyOrders) > 0
         THEN cancelWhileWaiting_next(
                Await(s, f, [L0 EXCEPT !.iter = LiveIter(0)]), f, FALSE)
         ELSE updateSellTPOrders(s, f)
    ELSE updateSellTPOrders(s, f)

(* checkMarketSellStatus; a read of a field of a null pendingMarketSell or *)
(* pendingNewTP throws and its catch ends the call                         *)

clearWaiting(s) ==
    [s EXCEPT !.isWaitingForMarketSell = FALSE, !.pendingMarketSell = Null,
              !.pendingNewTP = Null]

\* the status of the pending sell came back; age is the class of
\* `elapsed`: 0 (<= 10 s), 1 (<= 30 s), 2 (> 30 s)
checkMarketSellStatus_status(s, f, st, age) ==
    IF s.pendingMarketSell = Null THEN fetchOrderbook(s, f)
    ELSE
      LET s1 == [s EXCEPT !.pendingMarketSell.age = age]
      IN IF st = "Filled" THEN Await(s1, f, [L0 EXCEPT !.pc = "ms_f_ob"])
         ELSE IF st = "PartiallyFilled" THEN fetchOrderbook(s1, f)
         ELSE IF age > 1 THEN Await(s1, f, [L0 EXCEPT !.pc = "ms_to_cancel"])
         ELSE IF s1.pendingMarketSell.isLimitFallback /\ age > 0
         THEN Await(s1, f, [L0 EXCEPT !.pc = "ms_rp_ob"])
         ELSE fetchOrderbook(s1, f)

\* Filled: the orderbook for the P/L estimate came back
checkMarketSellStatus_filled(s, f, ob) ==
    IF s.pendingMarketSell = Null THEN fetchOrderbook(s, f)
    ELSE
      LET m == s.pendingMarketSell
          sellPrice == IF ob # Null THEN ob.bestBid ELSE m.buyPrice
          s1 == [s EXCEPT
                   !.stats.realProfit = @ + (sellPrice - m.buyPrice) * m.qty,
                   !.stats.totalSellOrdersFilled = @ + 1]
      IN IF s1.pendingNewTP # Null
         THEN Await(s1, f, [L0 EXCEPT !.pc = "ms_f_place",
                               !.price = tpPriceOf(s1.config, s1.pendingNewTP.buyPrice)])
         ELSE fetchOrderbook(clearWaiting(s1), f)

\* Filled: the placement of the pending TP came back
checkMarketSellStatus_tpPlaced(s, f, ok) ==
    LET l == Local(s, f)
    IN IF ~ok THEN fetchOrderbook(clearWaiting(s), f)
       ELSE IF s.pendingNewTP = Null THEN fetchOrderbook(sellCreatedOnly(s), f)
       ELSE fetchOrderbook(clearWaiting(pushPendingTP(s, NewId(s), l.price)), f)

\* timeout: the cancel of the market order came back
checkMarketSellStatus_timeoutCanceled(s, f) ==
    Await(s, f, [L0 EXCEPT !.pc = "ms_to_ob"])

\* timeout: the orderbook for the limit price came back
checkMarketSellStatus_timeoutOrderbook(s, f, ob) ==
    IF ob = Null \/ s.pendingMarketSell = Null THEN fetchOrderbook(s, f)
    ELSE Await(s, f, [L0 EXCEPT !.pc = "ms_to_place",
                         !.price = roundToTick(s.config, ob.bestBid)])

\* createFallbackTP: the placement came back
createFallbackTP_placed(s, f, ok) ==
    LET l == Local(s, f)
    IN IF ~ok THEN fetchOrderbook([s EXCEPT !.pendingNewTP = Null], f)
       ELSE IF s.pendingNewTP = Null THEN fetchOrderbook(sellCreatedOnly(s), f)
       ELSE fetchOrderbook(
              [pushPendingTP(s, NewId(s), l.price) EXCEPT !.pendingNewTP = Null], f)

\* timeout: the placement of the fallback limit sell came back
checkMarketSellStatus_fallbackPlaced(s, f, ok) ==
    LET l == Local(s, f)
    IN IF ok
       THEN IF s.pendingMarketSell = Null THEN fetchOrderbook(s, f)
            ELSE fetchOrderbook(
                   [s EXCEPT !.pendingMarketSell.orderId = NewId(s),
                             !.pendingMarketSell.age = 0,
                             !.pendingMarketSell.isLimitFallback = TRUE,
                             !.pendingMarketSell.limitPrice = l.price], f)
       ELSE
         LET s1 == [s EXCEPT !.isWaitingForMarketSell = FALSE,
                             !.pendingMarketSell = Null]
         IN IF s1.pendingNewTP # Null
            THEN Await(s1, f, [L0 EXCEPT !.pc = "ms_fb_place",
                                  !.price = tpPriceOf(s1.config, s1.pendingNewTP.buyPrice)])
            ELSE fetchOrderbook(s1, f)

\* limit fallback older than 10 s: the orderbook came back
checkMarketSellStatus_repriceOrderbook(s, f, ob) ==
    IF ob = Null \/ s.pendingMarketSell = Null THEN fetchOrderbook(s, f)
    ELSE IF Abs(ob.bestBid - s.pendingMarketSell.limitPrice) > s.config.tickSize * 2
    THEN Await(s, f, [L0 EXCEPT !.pc = "ms_rp_cancel", !.bestBid = ob.bestBid])
    ELSE fetchOrderbook(s, f)

\* reprice: the cancel of the old limit sell came back
checkMarketSellStatus_repriceCanceled(s, f) ==
    LET l == Local(s, f)
    IN IF s.pendingMarketSell = Null THEN fetchOrderbook(s, f)
       ELSE Await(s, f, [L0 EXCEPT !.pc = "ms_rp_place",
                            !.price = roundToTick(s.config, l.bestBid)])

\* reprice: the placement of the new limit sell came back
checkMarketSellStatus_repricePlaced(s, f, ok) ==
    LET l == Local(s, f)
    IN IF ok /\ s.pendingMarketSell # Null
       THEN fetchOrderbook(
              [s EXCEPT !.pendingMarketSell.orderId = NewId(s),
                        !.pendingMarketSell.age = 0,
                        !.pendingMarketSell.limitPrice = l.price], f)
       ELSE fetchOrderbook(s, f)

\* the entry of runMainLoop
runMainLoop(s, f) ==
    IF ~s.isRunning THEN Await(s, f, L0)
    ELSE IF s.isWaitingForMarketSell /\ s.pendingMarketSell # Null
    THEN Await(s, f, [L0 EXCEPT !.pc = "ms_status"])
    ELSE fetchOrderbook(s, f)

----------------------------------------------------------------------------
(* stop(), sellAllAtMarket(), cancelAllTPOrders() and the stop button *)

\* resetButtonStates(), after `await scalpingBot.stop()` in the click handler
stop_done(s) ==
    [s EXCEPT !.stopProc = P0,
              !.btn = [start |-> TRUE, stop |-> FALSE, pause |-> FALSE,
                       resume |-> FALSE, disabled |-> FALSE]]

\* for (const order of this.activeSellTPOrders) in cancelAllTPOrders
cancelAllTPOrders_next(s) ==
    LET it == s.stopProc.iter
    IN IF it.idx < Len(s.activeSellTPOrders)
       THEN [s EXCEPT !.stopProc = [P0 EXCEPT !.pc = "s_ca_cancel",
                                       !.iter = iterNext(it),
                                       !.order = s.activeSellTPOrders[it.idx + 1]]]
       ELSE stop_done([s EXCEPT !.activeSellTPOrders = <<>>])

cancelAllTPOrders(s) ==
    cancelAllTPOrders_next([s EXCEPT !.stopProc.iter = LiveIter(0)])

\* one cancel of cancelAllTPOrders came back
cancelAllTPOrders_canceled(s) ==
    cancelAllTPOrders_next(
      [s EXCEPT !.stats.totalSellOrdersCanceled = @ + 1,
                !.stats.pendingPositions = RemoveFirstId(@, s.stopProc.order.orderId)])

\* for (const order of this.activeSellTPOrders) in sellAllAtMarket
sellAllAtMarket_next(s) ==
    LET it == s.stopProc.iter
    IN IF it.idx < Len(s.activeSellTPOrders)
       THEN [s EXCEPT !.stopProc.pc = "s_tp_cancel",
                      !.stopProc.iter = iterNext(it),
                      !.stopProc.order = s.activeSellTPOrders[it.idx + 1]]
       ELSE stop_done([s EXCEPT !.activeSellTPOrders = <<>>])

\* the orderbook of sellAllAtMarket came back
sellAllAtMarket_orderbook(s, ob) ==
    IF ob = Null THEN cancelAllTPOrders(s)
    ELSE sellAllAtMarket_next(
           [s EXCEPT !.stopProc.iter = LiveIter(0), !.stopProc.bestAsk = ob.bestAsk])

\* the cancel of one TP came back
sellAllAtMarket_canceled(s) ==
    [s EXCEPT !.stats.totalSellOrdersCanceled = @ + 1,
              !.stopProc.pc = "s_tp_market",
              !.stopProc.done = @ \cup {s.stopProc.order.orderId}]

\* the market sell of one TP came back
sellAllAtMarket_sold(s, ok) ==
    LET o == s.stopProc.order
    IN sellAllAtMarket_next(
         IF ok
         THEN [s EXCEPT
                 !.stats.realProfit = @ + (s.stopProc.bestAsk - o.buyPrice) * o.qty,
                 !.stats.totalSellOrdersFilled = @ + 1,
                 !.stats.pendingPositions = RemoveFirstId(@, o.orderId)]
         ELSE s)

\* "Handle TP orders based on sellAllOnStop option"
stop_tpOrders(s) ==
    IF s.config.sellAllOnStop /\ Len(s.activeSellTPOrders) > 0
    THEN [s EXCEPT !.stopProc = [P0 EXCEPT !.pc = "s_ob"]]
    ELSE cancelAllTPOrders(s)

\* "Cancel all buy orders first": one cancel came back (or the loop starts)
stop_buyNext(s, counted) ==
    LET s1 == IF counted
              THEN [s EXCEPT !.stats.totalBuyOrdersCanceled = @ + 1] ELSE s
        it == s1.stopProc.iter
    IN IF iterHasNext(it, Len(s1.activeBuyOrders))
       THEN [s1 EXCEPT !.stopProc.pc = "s_buy_cancel", !.stopProc.iter = iterNext(it),
                       !.stopProc.done =
                           IF it.live
                           THEN @ \cup {s1.activeBuyOrders[it.idx + 1].orderId}
                           ELSE @]
       ELSE stop_tpOrders(clearBuyOrders([s1 EXCEPT !.stopProc.iter = Null]))

\* clearTimeout(this.loopInterval)
clearLoopTimeout(s) ==
    IF s.loopInterval = 0 THEN s
    ELSE [s EXCEPT !.loopInterval = 0,
                   !.loops[s.loopInterval] =
                       IF @.pc = "timer" THEN L0 ELSE @]

\* stop() up to its first await
stop(s) ==
    IF ~s.isRunning THEN stop_done(s)
    ELSE stop_buyNext(
           [clearLoopTimeout([s EXCEPT !.isRunning = FALSE, !.isPaused = FALSE])
              EXCEPT !.stopProc.iter = LiveIter(0),
                     !.stopProc.open = IdsOf(s.activeBuyOrders)], FALSE)

----------------------------------------------------------------------------
(* pause(), resume() and their buttons *)

pause_done(s) ==
    [s EXCEPT !.pauseProc = P0, !.btn.pause = FALSE, !.btn.resume = TRUE]

pause_next(s, counted) ==
    LET s1 == IF counted
              THEN [s EXCEPT !.stats.totalBuyOrdersCanceled = @ + 1] ELSE s
        it == s1.pauseProc.iter
    IN IF iterHasNext(it, Len(s1.activeBuyOrders))
       THEN [s1 EXCEPT !.pauseProc.pc = "p_cancel", !.pauseProc.iter = iterNext(it)]
       ELSE pause_done(clearBuyOrders([s1 EXCEPT !.pauseProc.iter = Null]))

pause(s) ==
    IF ~s.isRunning \/ s.isPaused
    THEN [s EXCEPT !.btn.pause = FALSE, !.btn.resume = TRUE]
    ELSE pause_next([s EXCEPT !.isPaused = TRUE,
                              !.pauseProc.iter = LiveIter(0)], FALSE)

resume(s) ==
    [(IF ~s.isRunning \/ ~s.isPaused THEN s ELSE [s EXCEPT !.isPaused = FALSE])
       EXCEPT !.btn.resume = FALSE, !.btn.pause = TRUE]

----------------------------------------------------------------------------
(* resetStats(), init(config), start() and the start button *)

resetStats(s) ==
    [s EXCEPT !.stats = ZeroStats, !.isWaitingForMarketSell = FALSE,
              !.pendingMarketSell = Null, !.pendingNewTP = Null]

init(s, c) == resetStats([s EXCEPT !.config = c])

\* start() runs runMainLoop up to its first await, as invocation f
start(s, f) ==
    IF s.isRunning THEN s
    ELSE runMainLoop([s EXCEPT !.isRunning = TRUE, !.isPaused = FALSE], f)

\* validateConfig: apiSecret and symbol are tested like apiKey
validateConfig(c) == c.apiKey # "" /\ ~(c.orderQty <= 0)

\* the click handler of the start button
startClick(s, c, f) ==
    IF ~validateConfig(c) THEN s
    ELSE [start(init(resetStats(s), c), f)
            EXCEPT !.btn.start = FALSE, !.btn.pause = TRUE, !.btn.stop = TRUE,
                   !.btn.resume = FALSE]

----------------------------------------------------------------------------
(* The adapter's answers *)

Statuses == {"New", "PartiallyFilled", "Filled"}

\* cumExecQty of a partially filled order
PartialQtys(o) == 1..(o.qty - 1)

\* the exchange can accept one more BUY / one more TP / some other order
BuyAnswers == IF exchange.buys > 0 THEN BOOLEAN ELSE {FALSE}
SellAnswers == IF exchange.sells > 0 THEN BOOLEAN ELSE {FALSE}

\* the exchange accepted an order / the user clicked: one less is left
Bought(ok) ==
    exchange' = IF ok THEN [exchange EXCEPT !.buys = @ - 1] ELSE exchange
Sold(ok) ==
    exchange' = IF ok THEN [exchange EXCEPT !.sells = @ - 1] ELSE exchange
\* the tick read the orderbook top ob / a step that reads none: `same` lasts
\* as long as the tick stays in the status loop of updateBuyOrders
InStatusLoop == \E f \in Loops : loops'[f].pc = "ub_status"
NewTop(ob) ==
    tops' = [last |-> IF ob = Null THEN 0 ELSE ob.bestBid,
             same |-> ob # Null /\ ob.bestBid = tops.last /\ InStatusLoop,
             cancel |-> "none", net |-> tops.net, live |-> tops.live,
             rest |-> tops.rest, paid |-> tops.paid]

\* the ledger of a booked run: tops.net is the quantity the exchange has
\* executed on the engine's BUY orders, as far as a status answer has
\* reported it, less the quantity of the engine's SELL orders that are
\* filled or live on the exchange; tops.live holds the ids of the SELL
\* orders the exchange accepted and has not cancelled, tops.rest the ids of
\* those the engine has neither seen Filled nor asked to cancel, tops.paid
\* the ids of the TP orders it has counted in totalSellOrdersFilled and
\* realProfit. A step books d
Booked(d) ==
    tops' = [tops EXCEPT !.same = @ /\ InStatusLoop, !.cancel = "none",
                         !.net = IF exchange.ledger THEN @ + d ELSE @]
SameTops == Booked(0)
QtyOf(o) == IF o = Null THEN 0 ELSE o.qty

\* a status answer told the engine that the SELL order o is Filled (or not)
SeenSell(o, filled) ==
    tops' = [tops EXCEPT !.same = @ /\ InStatusLoop, !.cancel = "none",
                         !.rest = IF filled /\ o # Null
                                  THEN @ \ {o.orderId} ELSE @,
                         !.paid = IF exchange.ledger /\ filled /\ o # Null
                                     /\ o # pendingMarketSell
                                  THEN @ \cup {o.orderId} ELSE @]

\* the exchange answered the placement of a SELL order of quantity q; the
\* order is one the engine goes on tracking (kept) or the market sell of
\* sellAllAtMarket, which it places and forgets, counting the TP it stands
\* for as filled
SoldAs(ok, q, kept) ==
    /\ Sold(ok)
    /\ tops' = [tops EXCEPT
                  !.same = @ /\ InStatusLoop, !.cancel = "none",
                  !.net = IF exchange.ledger /\ ok THEN @ - q ELSE @,
                  !.live = IF exchange.ledger /\ ok
                           THEN @ \cup {NewId(State)} ELSE @,
                  !.rest = IF exchange.ledger /\ ok /\ kept
                           THEN @ \cup {NewId(State)} ELSE @,
                  !.paid = IF exchange.ledger /\ ok /\ ~kept
                           THEN @ \cup {stopProc.order.orderId} ELSE @]
SoldQty(ok, q) == SoldAs(ok, q, TRUE)

\* cancelOrder answers true ("ok") or false ("failed": the exchange refused,
\* the order is unknown, or the transport threw); the caller resumes with it
CancelAnswers == {"ok", "failed"}
\* (a cancel that succeeds on a SELL order takes it off the exchange; one
\* that fails leaves it filled or live)
CanceledSellAs(o, a) ==
    LET off == exchange.ledger /\ a = "ok" /\ o # Null
    IN tops' = [tops EXCEPT
                  !.same = @ /\ InStatusLoop, !.cancel = a,
                  !.net = IF off /\ o.orderId \in tops.live
                          THEN @ + o.qty ELSE @,
                  !.live = IF off THEN @ \ {o.orderId} ELSE @,
                  !.rest = IF o # Null THEN @ \ {o.orderId} ELSE @]
CanceledSell(o) == \E a \in CancelAnswers : CanceledSellAs(o, a)
\* the cancel of the pending sell came back: in a rolling run the exchange
\* can take one more SELL order once it has cancelled this one
CanceledPendingSell ==
    \E a \in CancelAnswers :
      /\ CanceledSellAs(pendingMarketSell, a)
      /\ exchange' = IF a = "ok" /\ exchange.sells < exchange.rolling
                     THEN [exchange EXCEPT !.sells = @ + 1] ELSE exchange
Canceled == CanceledSell(Null)

Clicked ==
    /\ exchange.clicks > 0
    /\ exchange' = [exchange EXCEPT !.clicks = @ - 1]

\* whether the waitAfterBuyFill window can still be open
CoolAnswers ==
    IF config # Null /\ config.waitAfterBuyFill > 0 /\ lastBuyFillTime > 0
    THEN BOOLEAN ELSE {FALSE}

At(f, pc) == loops[f].pc = pc

----------------------------------------------------------------------------
(* Actions: the commands *)

\* Start: the new invocation of runMainLoop is the first one not in flight
FirstFree(f) ==
    /\ loops[f].pc = "none"
    /\ \A g \in Loops : g < f => loops[g].pc # "none"

StartClick ==
    /\ btn.start
    /\ exchange.overlap \/ \A g \in Loops : loops[g].pc = "none"
    /\ \E f \in Loops : \E c \in exchange.form :
         /\ FirstFree(f)
         /\ Commit(startClick(State, c, f)) /\ Clicked /\ SameTops

StopClick ==
    /\ btn.stop /\ ~btn.disabled
    /\ stopProc.pc = "idle"
    /\ Commit(stop([State EXCEPT !.btn.disabled = TRUE])) /\ Clicked /\ SameTops

PauseClick ==
    /\ btn.pause /\ ~btn.disabled
    /\ pauseProc.pc = "idle" \/ ~isRunning \/ isPaused
    /\ Commit(pause(State)) /\ Clicked /\ SameTops

ResumeClick ==
    /\ btn.resume /\ ~btn.disabled
    /\ Commit(resume(State)) /\ Clicked /\ SameTops

\* the clear-stats button: its handler refuses while running or paused
ClearStatsClick ==
    /\ btn.start
    /\ ~(isRunning \/ isPaused)
    /\ Commit(resetStats(State)) /\ Clicked /\ SameTops

(* Actions: one tick of runMainLoop, await by await *)

TimerFires(f) ==
    /\ At(f, "timer")
    /\ Commit(runMainLoop(State, f)) /\ UNCHANGED exchange /\ SameTops

MarketSellStatus(f) ==
    /\ At(f, "ms_status")
    /\ \E st \in Statuses : \E age \in 0..2 :
         /\ pendingMarketSell # Null => age >= pendingMarketSell.age
         /\ Commit(checkMarketSellStatus_status(State, f, st, age)) /\ UNCHANGED exchange
         /\ SeenSell(pendingMarketSell, st = "Filled")

MarketSellFilledOrderbook(f) ==
    /\ At(f, "ms_f_ob")
    /\ \E ob \in Orderbooks : Commit(checkMarketSellStatus_filled(State, f, ob)) /\ UNCHANGED exchange /\ SameTops

MarketSellFilledTPPlaced(f) ==
    /\ At(f, "ms_f_place")
    /\ \E ok \in SellAnswers : Commit(checkMarketSellStatus_tpPlaced(State, f, ok)) /\ SoldQty(ok, QtyOf(pendingNewTP))

MarketSellTimeoutCanceled(f) ==
    /\ At(f, "ms_to_cancel")
    /\ Commit(checkMarketSellStatus_timeoutCanceled(State, f)) /\ CanceledPendingSell

MarketSellTimeoutOrderbook(f) ==
    /\ At(f, "ms_to_ob")
    /\ \E ob \in Orderbooks :
         Commit(checkMarketSellStatus_timeoutOrderbook(State, f, ob)) /\ UNCHANGED exchange /\ SameTops

MarketSellFallbackPlaced(f) ==
    /\ At(f, "ms_to_place")
    /\ \E ok \in SellAnswers :
         Commit(checkMarketSellStatus_fallbackPlaced(State, f, ok)) /\ SoldQty(ok, QtyOf(pendingMarketSell))

FallbackTPPlaced(f) ==
    /\ At(f, "ms_fb_place")
    /\ \E ok \in SellAnswers : Commit(createFallbackTP_placed(State, f, ok)) /\ SoldQty(ok, QtyOf(pendingNewTP))

MarketSellRepriceOrderbook(f) ==
    /\ At(f, "ms_rp_ob")
    /\ \E ob \in Orderbooks :
         Commit(checkMarketSellStatus_repriceOrderbook(State, f, ob)) /\ UNCHANGED exchange /\ SameTops

MarketSellRepriceCanceled(f) ==
    /\ At(f, "ms_rp_cancel")
    /\ Commit(checkMarketSellStatus_repriceCanceled(State, f)) /\ CanceledPendingSell

MarketSellRepricePlaced(f) ==
    /\ At(f, "ms_rp_place")
    /\ \E ok \in SellAnswers :
         Commit(checkMarketSellStatus_repricePlaced(State, f, ok)) /\ SoldQty(ok, QtyOf(pendingMarketSell))

OrderbookFetched(f) ==
    /\ At(f, "ob")
    /\ \E ob \in Orderbooks : \E nOld \in 0..Len(activeBuyOrders) :
         \E cool \in CoolAnswers :
           /\ Commit(runMainLoop_orderbook(State, f, ob, nOld, cool))
           /\ NewTop(ob)
           /\ UNCHANGED exchange

CancelWhileWaitingDone(f) ==
    /\ At(f, "w_cancel")
    /\ Commit(cancelWhileWaiting_next(State, f, TRUE)) /\ UNCHANGED exchange /\ Canceled

BuyStatus(f) ==
    /\ At(f, "ub_status")
    /\ \E st \in Statuses : \E cool \in CoolAnswers :
         \E q \in (IF st = "PartiallyFilled"
                   THEN PartialQtys(loops[f].order) ELSE {0}) :
           /\ Commit(updateBuyOrders_status(State, f, st, q, cool))
           /\ UNCHANGED exchange
           /\ LET o == loops[f].order
                  seen == filledQtyOf(State, o)
                  now == IF st = "Filled" THEN o.qty
                         ELSE IF st = "PartiallyFilled" THEN q ELSE seen
              IN Booked(IF now > seen THEN now - seen ELSE 0)

BuyExpiredCanceled(f) ==
    /\ At(f, "ub_ttl_cancel")
    /\ \E cool \in CoolAnswers : Commit(updateBuyOrders_expired(State, f, cool)) /\ UNCHANGED exchange /\ Canceled

BuyRepriceCanceled(f) ==
    /\ At(f, "ub_rp_cancel")
    /\ \E cool \in CoolAnswers : Commit(updateBuyOrders_repriced(State, f, cool)) /\ UNCHANGED exchange /\ Canceled

TPEvictCanceled(f) ==
    /\ At(f, "tp_ev_cancel")
    /\ Commit(createSellTPOrder_evicted(State, f)) /\ UNCHANGED exchange /\ CanceledSell(loops[f].highestOrder)

TPEvictMarketPlaced(f) ==
    /\ At(f, "tp_ev_market")
    /\ \E ok \in SellAnswers : \E cool \in CoolAnswers :
         Commit(createSellTPOrder_marketPlaced(State, f, ok, cool)) /\ SoldQty(ok, QtyOf(loops[f].highestOrder))

TPPlaced(f) ==
    /\ At(f, "tp_place")
    /\ \E ok \in SellAnswers : \E cool \in CoolAnswers :
         Commit(createSellTPOrder_placed(State, f, ok, cool)) /\ SoldQty(ok, loops[f].qty)

BuyPlaced(f) ==
    /\ At(f, "cb_place")
    /\ \E ok \in BuyAnswers : Commit(createBuyOrders_placed(State, f, ok)) /\ Bought(ok) /\ SameTops

TPStatus(f) ==
    /\ At(f, "us_status")
    /\ \E filled \in BOOLEAN : Commit(updateSellTPOrders_status(State, f, filled)) /\ UNCHANGED exchange /\ SeenSell(loops[f].order, filled)

PendingTPPlaced(f) ==
    /\ At(f, "us_place")
    /\ \E ok \in SellAnswers : Commit(updateSellTPOrders_placed(State, f, ok)) /\ SoldQty(ok, QtyOf(pendingNewTP))

(* Actions: stop() and pause(), await by await *)

StopBuyCanceled ==
    /\ stopProc.pc = "s_buy_cancel"
    /\ Commit(stop_buyNext(State, TRUE)) /\ UNCHANGED exchange /\ Canceled

StopOrderbook ==
    /\ stopProc.pc = "s_ob"
    /\ \E ob \in Orderbooks : Commit(sellAllAtMarket_orderbook(State, ob)) /\ UNCHANGED exchange /\ SameTops

StopTPCanceled ==
    /\ stopProc.pc = "s_tp_cancel"
    /\ Commit(sellAllAtMarket_canceled(State)) /\ UNCHANGED exchange /\ CanceledSell(stopProc.order)

StopTPSold ==
    /\ stopProc.pc = "s_tp_market"
    /\ \E ok \in SellAnswers : Commit(sellAllAtMarket_sold(State, ok)) /\ SoldAs(ok, QtyOf(stopProc.order), FALSE)

StopCancelAllCanceled ==
    /\ stopProc.pc = "s_ca_cancel"
    /\ Commit(cancelAllTPOrders_canceled(State)) /\ UNCHANGED exchange /\ CanceledSell(stopProc.order)

PauseBuyCanceled ==
    /\ pauseProc.pc = "p_cancel"
    /\ Commit(pause_next(State, TRUE)) /\ UNCHANGED exchange /\ Canceled

----------------------------------------------------------------------------

\* the state the constructor leaves, the Start button shown
Constructed ==
    /\ isRunning = FALSE
    /\ isPaused = FALSE
    /\ config = Null
    /\ activeBuyOrders = <<>>
    /\ activeSellTPOrders = <<>>
    /\ loopInterval = 0
    /\ lastBuyFillTime = 0
    /\ isWaitingForMarketSell = FALSE
    /\ pendingMarketSell = Null
    /\ pendingNewTP = Null
    /\ stats = ZeroStats
    /\ loops = [f \in Loops |-> L0]
    /\ stopProc = P0
    /\ pauseProc = P0
    /\ btn = [start |-> TRUE, stop |-> FALSE, pause |-> FALSE,
              resume |-> FALSE, disabled |-> FALSE]

NoTops == tops = [last |-> 0, same |-> FALSE, cancel |-> "none", net |-> 0,
                  live |-> {}, rest |-> {}, paid |-> {}]

Init == Constructed /\ exchange \in Budgets /\ NoTops

Tick(f) ==
    \/ TimerFires(f)
    \/ MarketSellStatus(f)
    \/ MarketSellFilledOrderbook(f)
    \/ MarketSellFilledTPPlaced(f)
    \/ MarketSellTimeoutCanceled(f)
    \/ MarketSellTimeoutOrderbook(f)
    \/ MarketSellFallbackPlaced(f)
    \/ FallbackTPPlaced(f)
    \/ MarketSellRepriceOrderbook(f)
    \/ MarketSellRepriceCanceled(f)
    \/ MarketSellRepricePlaced(f)
    \/ OrderbookFetched(f)
    \/ CancelWhileWaitingDone(f)
    \/ BuyStatus(f)
    \/ BuyExpiredCanceled(f)
    \/ BuyRepriceCanceled(f)
    \/ TPEvictCanceled(f)
    \/ TPEvictMarketPlaced(f)
    \/ TPPlaced(f)
    \/ BuyPlaced(f)
    \/ TPStatus(f)
    \/ PendingTPPlaced(f)

Next ==
    \/ StartClick
    \/ StopClick
    \/ PauseClick
    \/ ResumeClick
    \/ ClearStatsClick
    \/ \E f \in Loops : Tick(f)
    \/ StopBuyCanceled
    \/ StopOrderbook
    \/ StopTPCanceled
    \/ StopTPSold
    \/ StopCancelAllCanceled
    \/ PauseBuyCanceled

Spec == Init /\ [][Next]_vars

\* a rolling run that is started and never paused or stopped; the timer
\* that runMainLoop sets with setTimeout fires
LiveInit == Constructed /\ exchange \in LiveBudgets /\ NoTops
LiveNext ==
    \/ StartClick
    \/ \E f \in Loops : Tick(f)
LiveSpec ==
    LiveInit /\ [][LiveNext]_vars /\ WF_vars(\E f \in Loops : TimerFires(f))

----------------------------------------------------------------------------
(* The engine's state as the commands see it, and the ends of ticks *)

EngineStateOf(s) ==
    IF s.stopProc.pc # "idle" THEN "Stopping"
    ELSE IF ~s.isRunning THEN "Stopped"
    ELSE IF s.isPaused THEN "Paused"
    ELSE "Running"

EngineState == EngineStateOf(State)

InTick(f) == loops[f].pc \notin {"none", "timer"}

\* this step ends a tick of invocation f and the engine schedules the next
\* (runMainLoop reaches "if (this.isRunning) setTimeout(...)" with it true)
EndOfTick(f) == InTick(f) /\ loops'[f].pc = "timer"

\* ... while the engine is Running
EndOfRunningTick(f) == EndOfTick(f) /\ EngineState' = "Running"

layersOf(buys) == { buys[k].layer : k \in 1..Len(buys) }

----------------------------------------------------------------------------
(* C1..C10 *)

\* C1: at the end of every tick while the engine is Running, the number of
\* open TP orders is at most maxSellTPOrders.
C1_TPCapacityAtEndOfTick ==
    [][\A f \in Loops :
         EndOfRunningTick(f) =>
           Len(activeSellTPOrders') <= config'.maxSellTPOrders]_vars

\* C2: at the end of every tick while Running, the BUY book holds at most
\* maxBuyOrders orders and no two of them carry the same layer index.
C2_BuyBookAtEndOfTick ==
    [][\A f \in Loops :
         EndOfRunningTick(f) =>
           /\ Len(activeBuyOrders') <= config'.maxBuyOrders
           /\ Cardinality(layersOf(activeBuyOrders')) = Len(activeBuyOrders')]_vars

\* C3: whenever isWaitingForMarketSell is set at the end of a tick, the BUY
\* book is empty at the end of that tick (the overflow tick included), and
\* the top-up places no BUY while the flag is set.
C3_NoBuysWhileWaiting ==
    [][\A f \in Loops :
         /\ EndOfTick(f) /\ isWaitingForMarketSell' => activeBuyOrders' = <<>>
         /\ loops'[f].pc = "cb_place" => ~isWaitingForMarketSell']_vars

\* C7: every BUY the top-up places has a price at most the bestBid the tick
\* read, the collision-adjusted price included.
C7_BuyPriceAtMostBestBid ==
    \A f \in Loops :
      loops[f].pc = "cb_place" => loops[f].buyPrice <= loops[f].bestBid

\* C10: in every reachable state, isWaitingForMarketSell set implies the
\* engine is Running (not Paused, Stopping or Stopped).
C10_WaitingOnlyWhileRunning ==
    isWaitingForMarketSell => EngineState = "Running"

\* C4: at the end of every tick while Running, stats.pendingPositions and
\* activeSellTPOrders correspond one to one by orderId.
OneToOneById(a, b) ==
    /\ Cardinality(IdsOf(a)) = Len(a)
    /\ Cardinality(IdsOf(b)) = Len(b)
    /\ IdsOf(a) = IdsOf(b)

C4_PendingPositionsMatchTPs ==
    [][\A f \in Loops :
         EndOfRunningTick(f) =>
           OneToOneById(stats'.pendingPositions, activeSellTPOrders')]_vars

\* a step in which start() takes a stopped engine to running with the
\* config it already had
RestartSameConfig == ~isRunning /\ isRunning' /\ config' = config

FreshlyStarted ==
    /\ EngineState' = "Running"
    /\ activeBuyOrders' = <<>>
    /\ activeSellTPOrders' = <<>>
    /\ stats' = ZeroStats
    /\ ~isWaitingForMarketSell'
    /\ pendingMarketSell' = Null
    /\ pendingNewTP' = Null

\* C5: after stop has completed, start with the same config gives a Running
\* engine with empty BUY book and TP set, zero counters and realProfit, no
\* waiting sub-state and no pending payload, wherever stop was issued.
C5_RestartIsFresh == [][RestartSameConfig => FreshlyStarted]_vars

TPFillAccounted(f) ==
    /\ At(f, "us_status") /\ loops'[f] # loops[f]
    /\ stats'.totalSellOrdersFilled = stats.totalSellOrdersFilled + 1

\* checkMarketSellStatus accounts the filled market / fallback sell at a
\* quote below the buy price of the position it sold
MarketSellAccountedBelow(f) ==
    /\ At(f, "ms_f_ob") /\ loops'[f] # loops[f]
    /\ pendingMarketSell # Null
    /\ stats'.totalSellOrdersFilled = stats.totalSellOrdersFilled + 1
    /\ \E ob \in Orderbooks \ {Null} :
         /\ ob.bestBid < pendingMarketSell.buyPrice
         /\ stats'.realProfit = stats.realProfit
              + (ob.bestBid - pendingMarketSell.buyPrice) * pendingMarketSell.qty

\* sellAllAtMarket accounts a stop-time market sell at an ask below the buy price
FlattenAccountedBelow ==
    /\ stopProc.pc = "s_tp_market" /\ stopProc' # stopProc
    /\ stats'.totalSellOrdersFilled = stats.totalSellOrdersFilled + 1
    /\ stopProc.bestAsk < stopProc.order.buyPrice
    /\ stats'.realProfit = stats.realProfit
         + (stopProc.bestAsk - stopProc.order.buyPrice) * stopProc.order.qty

SellAccountedBelow ==
    FlattenAccountedBelow \/ \E f \in Loops : MarketSellAccountedBelow(f)

ProfitDrops == stats'.realProfit < stats.realProfit

\* resetStats ran (the start button, or the clear-stats button)
StatsReset == stats' = ZeroStats /\ exchange'.clicks < exchange.clicks

StepIs(s) == Commit(s)

\* the status of the BUY order in hand: still open, cumExecQty as recorded
Unchanged(f, st, q) ==
    LET cur == filledQtyOf(State, loops[f].order)
    IN \/ st = "New" /\ cur = 0 /\ q = 0
       \/ st = "PartiallyFilled" /\ cur > 0 /\ q = cur

\* invocation f reconciles the BUYs of a full ladder in a tick that read the
\* same orderbook top as the tick before, with no order at its TTL and, so
\* far, no order removed
SameTopFullLadder(f) ==
    /\ At(f, "ub_status")
    /\ tops.same
    /\ loops[f].old = {}
    /\ loops[f].ordersToRemove = {}
    /\ Len(activeBuyOrders) = config.maxBuyOrders

BuyStatusUnchanged(f) ==
    \E st \in Statuses : \E q \in 0..OrderQty : \E cool \in BOOLEAN :
      /\ Unchanged(f, st, q)
      /\ StepIs(updateBuyOrders_status(State, f, st, q, cool))

\* nothing is cancelled, placed or counted, and the tick goes on reading
Quiet(f) ==
    /\ UNCHANGED <<activeBuyOrders, activeSellTPOrders, stats>>
    /\ loops'[f].pc \in {"ub_status", "us_status", "timer", "none"}

\* no BUY in the book has a recorded partial fill, so the answers the tick
\* has had so far were all "still open, nothing executed"
NothingExecuted ==
    \A k \in 1..Len(activeBuyOrders) : activeBuyOrders[k].filledQty = 0

\* C6: a tick of the Running engine that starts with a full
\* ladder, reads the same orderbook top as the tick before, finds no order
\* at its TTL and gets "still open, cumExecQty unchanged" for every order
\* cancels and places nothing and changes no counter, whatever the
\* configuration.
C6_NoChangeTickIsNoOp ==
    [][\A f \in Loops :
         /\ SameTopFullLadder(f) /\ NothingExecuted
         /\ EngineState = "Running"
         /\ BuyStatusUnchanged(f)
         => Quiet(f)]_vars

----------------------------------------------------------------------------
(* States in which the cases of C8 and C9 have happened *)

----------------------------------------------------------------------------
(* C11..C20 *)

\* C11: at every tick boundary (here: of the Running engine),
\* pendingMarketSell set or pendingNewTP set implies isWaitingForMarketSell
\* set.
C11_PendingOnlyWhileWaiting ==
    [][\A f \in Loops :
         EndOfRunningTick(f) =>
           (pendingMarketSell' # Null \/ pendingNewTP' # Null
              => isWaitingForMarketSell')]_vars

\* the commands as the engine's methods, without their buttons' handlers:
\* pause() returns at once unless running and not paused
pauseCommand(s) == IF ~s.isRunning \/ s.isPaused THEN s ELSE pause(s)

\* resume() returns at once unless running and paused
resumeCommand(s) ==
    IF ~s.isRunning \/ ~s.isPaused THEN s ELSE [s EXCEPT !.isPaused = FALSE]

\* stop() returns at once unless running
stopCommand(s) == IF ~s.isRunning THEN s ELSE stop(s)

\* what a command without a row in the lifecycle table must leave alone:
\* the engine state, both books, the stats and the tick schedule
EngineView(s) ==
    [state |-> EngineStateOf(s), running |-> s.isRunning, paused |-> s.isPaused,
     buys |-> s.activeBuyOrders, tps |-> s.activeSellTPOrders,
     stats |-> s.stats, timer |-> s.loopInterval,
     ticks |-> [f \in Loops |-> s.loops[f].pc]]

Untouched(s) == EngineView(s) = EngineView(State)

\* C12: a command issued in a state for which the lifecycle table has no row
\* (start in Running, Paused or Stopping; pause in Paused, Stopping or
\* Stopped; resume in Running, Stopping or Stopped; stop in Stopping or
\* Stopped) leaves the engine state, both books, the stats and the tick
\* schedule unchanged.
C12_CommandsOffTheTableAreNoOps ==
    /\ EngineState \in {"Running", "Paused", "Stopping"}
         => \A f \in Loops : Untouched(start(State, f))
    /\ EngineState \in {"Paused", "Stopping", "Stopped"}
         => Untouched(pauseCommand(State))
    /\ EngineState \in {"Running", "Stopping", "Stopped"}
         => Untouched(resumeCommand(State))
    /\ EngineState \in {"Stopping", "Stopped"}
         => Untouched(stopCommand(State))

\* pause() has completed and resume has not been issued (nor stop)
PauseCompleted == EngineState = "Paused" /\ pauseProc.pc = "idle"

\* invocation f calls placeLimitOrder('Buy', ...) in this step
PlacesBuy(f) == loops'[f].pc = "cb_place" /\ loops'[f] # loops[f]

\* C13: from the moment pause completes until resume is issued, no BUY limit
\* order is placed and the BUY book stays empty, also when a tick was
\* suspended on an adapter call while pause ran.
C13_NoBuysWhilePaused ==
    [][PauseCompleted /\ PauseCompleted' =>
         /\ activeBuyOrders' = <<>>
         /\ \A f \in Loops : ~PlacesBuy(f)]_vars

\* the invocations of runMainLoop that are inside a tick or hold a timer
TicksInFlightOrScheduled == { f \in Loops : loops[f].pc # "none" }

\* C14: at any time at most one tick of runMainLoop is in flight or scheduled,
\* also when stop is issued while a tick is suspended and start follows
\* before that tick returns.
C14_AtMostOneTick == Cardinality(TicksInFlightOrScheduled) <= 1

\* invocation f leaves its tick in this step (runMainLoop returns)
TickReturns(f) == InTick(f) /\ ~InTick(f)'

\* C15: while the engine is Running or Paused, whatever the adapter answers
\* during a tick (failed fetch, rejected placement, failed cancel, unknown
\* order, a transport error the wrappers turn into one of these), the step
\* that ends the tick schedules the next one.
C15_TickAlwaysReschedules ==
    [][\A f \in Loops :
         TickReturns(f) /\ EngineState' \in {"Running", "Paused"}
           => loops'[f].pc = "timer" /\ loopInterval' = f]_vars

\* a tick whose orderbook fetch failed has just ended and the next is scheduled
C15_Witness ==
    \E f \in Loops :
      /\ loops[f].pc = "timer" /\ loopInterval = f
      /\ EngineState = "Running" /\ tops.last = 0
      /\ stats.totalBuyOrdersCreated > 0

\* C16: an order leaves a book (or is marked for the splice that ends the
\* pass) in a step that resumes on a cancel only if that cancel answered
\* success, and an order enters a book only in a step in which the exchange
\* accepted a placement.
C16_BooksFollowTheAdapter ==
    [][/\ tops'.cancel = "failed" =>
            /\ IdsOf(activeBuyOrders) \subseteq IdsOf(activeBuyOrders')
            /\ IdsOf(activeSellTPOrders) \subseteq IdsOf(activeSellTPOrders')
            /\ \A f \in Loops :
                 loops'[f].ordersToRemove \subseteq loops[f].ordersToRemove
       /\ ~(IdsOf(activeBuyOrders') \subseteq IdsOf(activeBuyOrders))
            => exchange'.buys < exchange.buys
       /\ ~(IdsOf(activeSellTPOrders') \subseteq IdsOf(activeSellTPOrders))
            => exchange'.sells < exchange.sells]_vars

\* C17: totalBuyOrdersCanceled and totalSellOrdersCanceled grow only in a
\* step that resumes on a cancel that answered success.
C17_CancelCountersCountSuccesses ==
    [][\/ stats'.totalBuyOrdersCanceled > stats.totalBuyOrdersCanceled
       \/ stats'.totalSellOrdersCanceled > stats.totalSellOrdersCanceled
         => tops'.cancel = "ok"]_vars

\* `await scalpingBot.stop()` returns in this step: the buttons are reset
StopCompletes == btn.stop /\ btn'.start

\* C20: when stop completes, pendingPositions and the TP set are empty,
\* under both stop policies and whatever the adapter answered.
C20_FlatWhenStopCompletes ==
    [][StopCompletes =>
         stats'.pendingPositions = <<>> /\ activeSellTPOrders' = <<>>]_vars

\* C18: while the engine is not Stopped, a call of init (the Test Order
\* button makes one with the form's config) leaves the config, the counters,
\* realProfit, pendingPositions, the waiting flag, pendingMarketSell and
\* pendingNewTP as they are.
C18_InitRefusedUnlessStopped ==
    EngineState # "Stopped" =>
      \A c \in exchange.form :
        LET s == init(State, c)
        IN /\ s.config = config
           /\ s.stats = stats
           /\ s.isWaitingForMarketSell = isWaitingForMarketSell
           /\ s.pendingMarketSell = pendingMarketSell
           /\ s.pendingNewTP = pendingNewTP

\* C19: a configuration with a numeric field out of its range (tickSize,
\* orderQty not above 0; maxBuyOrders, layerStepTicks, repriceTicks, tpTicks,
\* maxSellTPOrders below 1) or without credentials never gets the engine
\* running (buyTTL and loopInterval are times, which the model does not keep).
C19_InvalidConfigNeverRuns ==
    isRunning =>
      /\ config.apiKey # ""
      /\ config.tickSize > 0 /\ config.orderQty > 0
      /\ config.maxBuyOrders >= 1 /\ config.layerStepTicks >= 1
      /\ config.repriceTicks >= 1 /\ config.tpTicks >= 1
      /\ config.maxSellTPOrders >= 1

----------------------------------------------------------------------------
(* C21..C30 *)

\* C21: every BUY that was open when stop began and is still in the book when
\* stop turns to the TPs has been cancelled by stop; with sellAllOnStop and a
\* fetched orderbook every TP stop drops was cancelled and then market-sold;
\* without sellAllOnStop stop never reaches a market sell.
C21_StopOrder ==
    [][/\ stopProc.pc = "s_buy_cancel" /\ stopProc'.pc # "s_buy_cancel"
            => IdsOf(activeBuyOrders) \cap stopProc.open \subseteq stopProc.done
       /\ stopProc.pc = "s_tp_market" /\ stopProc'.pc = "idle"
            => IdsOf(activeSellTPOrders) \subseteq stopProc.done
       /\ stopProc.pc \in {"s_ob", "s_tp_cancel", "s_tp_market"}
            => config.sellAllOnStop]_vars

\* C22: the step that evicts a TP at the cap removes exactly one TP, every
\* other TP stays as it is, and the one removed has the highest price of the
\* set and, among the TPs of that price, is the first placed (the set keeps
\* its TPs in the order of their placement).
C22_EvictsOldestHighest ==
    [][\A f \in Loops :
         loops[f].pc = "tp_ev_cancel" /\ loops'[f].pc # "tp_ev_cancel" =>
           \E k \in 1..Len(activeSellTPOrders) :
             /\ activeSellTPOrders' = RemoveAt(activeSellTPOrders, {k - 1})
             /\ \A j \in 1..Len(activeSellTPOrders) :
                  /\ activeSellTPOrders[j].price <= activeSellTPOrders[k].price
                  /\ j < k =>
                       activeSellTPOrders[j].price < activeSellTPOrders[k].price]_vars

\* C23: when the market sell of the overflow path is rejected, the step
\* clears the waiting flag and the pending payload and, the TP set being below
\* the cap, the same call goes on to place a TP for the fill it was called
\* with, at tpPrice(buyPrice).
C23_FailedMarketSellFallsBackToTP ==
    [][\A f \in Loops :
         loops[f].pc = "tp_ev_market" /\ loops'[f] # loops[f]
           /\ exchange'.sells = exchange.sells =>
             /\ ~isWaitingForMarketSell'
             /\ pendingNewTP' = Null /\ pendingMarketSell' = Null
             /\ Len(activeSellTPOrders') < config.maxSellTPOrders =>
                  /\ loops'[f].pc = "tp_place"
                  /\ loops'[f].i = loops[f].i
                  /\ loops'[f].buyPrice = loops[f].buyPrice
                  /\ loops'[f].qty = loops[f].qty
                  /\ loops'[f].price = tpPriceOf(config, loops[f].buyPrice)]_vars

\* C24: a tick that went through the TP reconciliation does not end, the
\* engine still running, with the waiting flag set, pendingNewTP set and room
\* in the TP set unless it has asked the exchange to place pendingNewTP; and
\* when that placement is accepted, the TP is added at
\* tpPrice(pendingNewTP.buyPrice), pendingNewTP is cleared, and the waiting
\* flag and pendingMarketSell stay as they are.
C24_PendingTPPlacedWhenRoom ==
    [][\A f \in Loops :
         /\ TickReturns(f) /\ loops[f].pc \notin {"ob", "us_place"} /\ isRunning'
              => ~(/\ isWaitingForMarketSell' /\ pendingNewTP' # Null
                   /\ Len(activeSellTPOrders') < config.maxSellTPOrders)
         /\ loops[f].pc = "us_place" /\ loops'[f] # loops[f]
              /\ exchange'.sells < exchange.sells /\ pendingNewTP # Null
              => /\ pendingNewTP' = Null
                 /\ isWaitingForMarketSell' = isWaitingForMarketSell
                 /\ pendingMarketSell' = pendingMarketSell
                 /\ Len(activeSellTPOrders') = Len(activeSellTPOrders) + 1
                 /\ activeSellTPOrders'[Len(activeSellTPOrders')].price
                      = tpPriceOf(config, pendingNewTP.buyPrice)]_vars

\* C25: in the tick that observes the pending sell Filled, the step that
\* books it counts one filled sell and changes realProfit by (best bid -
\* buyPrice of the evicted TP) * qty (nothing when the orderbook could not be
\* read); a pendingNewTP still set is then placed at tpPrice of its buy
\* price; and when the controller is done the waiting flag, pendingMarketSell
\* and pendingNewTP are cleared and the tick goes on to its orderbook fetch
\* and BUY management.
C25_FilledPendingSellEndsTheWait ==
    [][\A f \in Loops :
         /\ loops[f].pc = "ms_f_ob" /\ loops'[f] # loops[f] =>
              /\ pendingMarketSell # Null
              /\ stats'.totalSellOrdersFilled = stats.totalSellOrdersFilled + 1
              /\ \E p \in Bids \cup {pendingMarketSell.buyPrice} :
                   stats'.realProfit = stats.realProfit
                      + (p - pendingMarketSell.buyPrice) * pendingMarketSell.qty
              /\ IF pendingNewTP # Null
                 THEN /\ loops'[f].pc = "ms_f_place"
                      /\ loops'[f].price = tpPriceOf(config, pendingNewTP.buyPrice)
                 ELSE /\ ~isWaitingForMarketSell' /\ pendingMarketSell' = Null
                      /\ loops'[f].pc = "ob"
         /\ loops[f].pc = "ms_f_place" /\ loops'[f] # loops[f] =>
              /\ ~isWaitingForMarketSell'
              /\ pendingMarketSell' = Null /\ pendingNewTP' = Null
              /\ stats'.totalSellOrdersFilled = stats.totalSellOrdersFilled
              /\ loops'[f].pc = "ob"]_vars


\* C26: once the pending sell is a limit fallback, the wait controller starts
\* to cancel and replace it only from the branch for fallbacks older than
\* 10 s, and only with a best bid more than 2 ticks away from its limit
\* price; the pending sell itself is left as it was by that step.
C26_FallbackCancelledOnlyWhenStale ==
    [][\A f \in Loops :
         /\ pendingMarketSell # Null
         /\ pendingMarketSell.isLimitFallback
         /\ loops[f].pc \in {"ms_status", "ms_rp_ob"}
         /\ loops'[f].pc \in {"ms_to_cancel", "ms_rp_cancel"}
         => /\ loops[f].pc = "ms_rp_ob"
            /\ pendingMarketSell.age > 0
            /\ Abs(loops'[f].bestBid - pendingMarketSell.limitPrice)
                 > 2 * config.tickSize]_vars


\* C27: the step of BUY reconciliation that sees an open BUY order Filled
\* adds one to buyFilled, records lastBuyFillTime and calls the TP manager
\* for the order's price and full quantity; with the TP set below the cap
\* and the placement succeeding, the answer adds exactly one TP of that
\* quantity at tpPrice(order price); and when the reconciliation of that
\* tick ends, no order it saw Filled is left in the BUY book.
C27_FilledBuyBecomesTP ==
    [][\A f \in Loops :
         LET l == loops[f]
             m == loops'[f]
             InStep == {"ub_status", "ub_ttl_cancel", "ub_rp_cancel",
                        "tp_place", "tp_ev_cancel", "tp_ev_market"}
         IN /\ l.pc = "ub_status" /\ m.filled \ l.filled # {}
                 => /\ m.filled = l.filled \cup {l.order.orderId}
                    /\ stats'.totalBuyOrdersFilled = stats.totalBuyOrdersFilled + 1
                    /\ lastBuyFillTime' > 0
                    /\ m.buyPrice = l.order.price /\ m.qty = l.order.qty
                    /\ Len(activeSellTPOrders) < config.maxSellTPOrders
                         => /\ m.pc = "tp_place"
                            /\ m.price = tpPriceOf(config, l.order.price)
            /\ l.pc = "tp_place" /\ l.cont = "fill" /\ m # l
               /\ exchange'.sells < exchange.sells
                 => /\ Len(activeSellTPOrders') = Len(activeSellTPOrders) + 1
                    /\ \A k \in 1..Len(activeSellTPOrders) :
                         activeSellTPOrders'[k] = activeSellTPOrders[k]
                    /\ LET tp == activeSellTPOrders'[Len(activeSellTPOrders')]
                       IN /\ tp.qty = l.order.qty
                          /\ tp.buyPrice = l.order.price
                          /\ tp.price = tpPriceOf(config, l.order.price)
                    /\ stats'.totalBuyOrdersFilled = stats.totalBuyOrdersFilled
            /\ l.pc \in InStep /\ m.pc \notin InStep
                 => IdsOf(activeBuyOrders') \cap l.filled = {}]_vars


\* C28: when the BUY reconciliation of a tick ends (its splices done, the
\* top-up not yet begun), the BUY book holds no order that was older than
\* buyTTL when the reconciliation began and no order repriceTicks ticks or
\* more away from that tick's best bid; and an order seen Filled is handed
\* to the TP manager as a fill, with no cancel counted, also when it is
\* older than buyTTL.
C28_NoStaleBuyAfterReconciliation ==
    [][\A f \in Loops :
         LET l == loops[f]
             m == loops'[f]
             InStep == {"ub_status", "ub_ttl_cancel", "ub_rp_cancel",
                        "tp_place", "tp_ev_cancel", "tp_ev_market"}
         IN /\ l.pc \in InStep /\ m.pc \notin InStep
                 => \A k \in 1..Len(activeBuyOrders') :
                      /\ activeBuyOrders'[k].orderId \notin l.old
                      /\ ~needsReprice(config, activeBuyOrders'[k].price, l.bestBid)
            /\ l.pc = "ub_status" /\ m.filled \ l.filled # {}
                 => /\ m.pc \in {"tp_place", "tp_ev_cancel"}
                    /\ m.cont = "fill"
                    /\ stats'.totalBuyOrdersCanceled = stats.totalBuyOrdersCanceled]_vars


C30_OpenBuysAtDistinctPrices ==
    \A j, k \in 1..Len(activeBuyOrders) :
      j # k => 2 * Abs(activeBuyOrders[j].price - activeBuyOrders[k].price)
                 >= config.tickSize


----------------------------------------------------------------------------
(* C31..C39 *)

\* C31: when the top-up of a tick ends, of any two open BUY orders the one
\* with the smaller layer index has the strictly higher price.
C31_LayersOrderedByPrice ==
    [][\A f \in Loops :
         LET InPass == {"ub_status", "ub_ttl_cancel", "ub_rp_cancel",
                        "tp_place", "tp_ev_cancel", "tp_ev_market", "cb_place"}
         IN loops[f].pc \in InPass /\ loops'[f].pc \notin InPass
              => \A j, k \in 1..Len(activeBuyOrders') :
                   activeBuyOrders'[j].layer < activeBuyOrders'[k].layer
                     => activeBuyOrders'[j].price > activeBuyOrders'[k].price]_vars


\* C32: a tick returns only out of the TP reconciliation or with no TP open
\* to query (so every open TP had its status asked in that tick), whatever
\* the lifecycle state and also when the orderbook fetch failed; and within
\* a tick the steps follow the order wait controller, orderbook fetch, BUY
\* reconciliation, BUY top-up, TP reconciliation.
C32_EveryTickReconcilesTPs ==
    [][\A f \in Loops :
         LET Waits == {"ms_status", "ms_f_ob", "ms_f_place", "ms_to_cancel",
                       "ms_to_ob", "ms_to_place", "ms_fb_place", "ms_rp_ob",
                       "ms_rp_cancel", "ms_rp_place"}
             BuyRec == {"ub_status", "ub_ttl_cancel", "ub_rp_cancel",
                        "tp_place", "tp_ev_cancel", "tp_ev_market", "w_cancel"}
             TPRec == {"us_status", "us_place"}
             rank(pc) == IF pc \in Waits THEN 1
                         ELSE IF pc = "ob" THEN 2
                         ELSE IF pc \in BuyRec THEN 3
                         ELSE IF pc = "cb_place" THEN 4
                         ELSE 5
         IN /\ TickReturns(f) /\ loops[f].pc \notin TPRec
                 => activeSellTPOrders' = <<>>
            /\ InTick(f) /\ InTick(f)' => rank(loops[f].pc) <= rank(loops'[f].pc)]_vars


\* C33: the TP manager enters its overflow branch only when the engine is
\* not already waiting for a market sell, and an eviction never overwrites a
\* pendingNewTP that has not been placed or a pendingMarketSell that has not
\* been resolved.
C33_NoEvictionWhileWaiting ==
    [][\A f \in Loops :
         /\ loops'[f].pc = "tp_ev_cancel" /\ loops[f].pc # "tp_ev_cancel"
              => ~isWaitingForMarketSell
         /\ loops[f].pc = "tp_ev_cancel" /\ loops'[f].pc = "tp_ev_market"
              => pendingNewTP = Null
         /\ loops[f].pc = "tp_ev_market" /\ loops'[f] # loops[f]
            /\ pendingMarketSell # Null
              => pendingMarketSell' = pendingMarketSell]_vars


\* C34: in every reachable state the quantity of the engine's SELL orders
\* that are filled or still live on the exchange is at most the quantity
\* executed on its BUY orders, where the exchange may fill an order between
\* the engine's status query and its cancel (the cancel then fails).
C34_NeverSellsMoreThanBought == tops.net >= 0

\* C35: no executed BUY quantity is dropped while the engine keeps running:
\* when a step removes from the book a BUY order on which the engine has
\* seen an executed quantity q > 0, a TP, a pendingNewTP or the pending
\* sell of an evicted TP covers q at the order's price afterwards; and when
\* the placement of a TP comes back, failed or not, the fill it was for is
\* covered in the same way.
C35_NoExecutedBuyDropped ==
    [][LET Covers(r, price, q) ==
               r # Null /\ r.buyPrice = price /\ r.qty >= q
           Covered(price, q) ==
               \/ \E k \in 1..Len(activeSellTPOrders') :
                     Covers(activeSellTPOrders'[k], price, q)
               \/ Covers(pendingNewTP', price, q)
               \/ Covers(pendingMarketSell', price, q)
       IN isRunning /\ isRunning'
            => /\ \A k \in 1..Len(activeBuyOrders) :
                    LET o == activeBuyOrders[k]
                    IN o.filledQty > 0
                       /\ o.orderId \notin IdsOf(activeBuyOrders')
                         => Covered(o.price, o.filledQty)
               /\ \A f \in Loops :
                    loops[f].pc = "tp_place" /\ loops'[f].pc # "tp_place"
                      => Covered(loops[f].buyPrice, loops[f].qty)]_vars

\* C36: when stop completes, every order the engine placed and has not seen
\* Filled has been sent a cancel request, the pending market sell or fallback
\* sell included: no SELL order that the exchange accepted is left that the
\* engine has neither seen Filled nor asked to cancel.
C36_StopCancelsEveryOpenOrder ==
    [][btn.stop /\ btn'.start => tops'.rest = {}]_vars

\* C37: each TP order contributes to totalSellOrdersFilled and to realProfit
\* at most once, whatever the interleaving of stop (cancelAllTPOrders or
\* sellAllAtMarket) with a tick whose TP reconciliation is suspended on a
\* status query: no step counts a TP that has been counted before.
C37_TPCountedAtMostOnce ==
    [][stats'.totalSellOrdersFilled > stats.totalSellOrdersFilled
         => /\ \A f \in Loops :
                 loops[f].pc = "us_status" /\ loops'[f] # loops[f]
                   => loops[f].order.orderId \notin tops.paid
            /\ stopProc.pc = "s_tp_market" /\ stopProc' # stopProc
                   => stopProc.order.orderId \notin tops.paid]_vars

\* C38: a stop issued in Running or Paused reaches Stopped, whatever each
\* cancel, orderbook fetch and market-sell placement returns, and on reaching
\* Stopped the BUY book and the TP set are both empty.
C38_StoppedWithEmptyBooks ==
    [][btn.stop /\ btn'.start
         => activeBuyOrders' = <<>> /\ activeSellTPOrders' = <<>>]_vars

\* C39: the waiting sub-state is left eventually. In a run that is never
\* paused or stopped, in which the timer fires (fairness of LiveSpec), every
\* adapter call of a tick comes back (the tick is back at its timer again
\* and again) and the exchange fills every SELL order that is left resting
\* (no order stays the tracked pending sell for ever), an engine that waits
\* for its market sell eventually stops waiting.
C39_WaitingIsLeft ==
    (/\ []<>(\E f \in Loops : loops[f].pc = "timer")
     /\ \A id \in 1..IdPool :
          []<>~(/\ isWaitingForMarketSell
                /\ pendingMarketSell # Null
                /\ pendingMarketSell.orderId = id))
      => (isWaitingForMarketSell ~> ~isWaitingForMarketSell)

============================================================================
